---- MODULE Spec2Model ----
(***************************************************************************)
(* A model of the theater-time layout negotiator: the direction algebra    *)
(* (typedefs.hpp), the stacking directors (directors.hpp) and the          *)
(* production loop with the reference renderer (main.cpp).                 *)
(*                                                                         *)
(* Floats are modelled by integers: every value the program computes from  *)
(* integral inputs by +, -, < and std::min is integral and far below 2^24, *)
(* so float arithmetic is exact on them.  A script is modelled by its      *)
(* size(): the layout reads nothing else of it.                            *)
(***************************************************************************)
EXTENDS Integers, Sequences, FiniteSets, TLC

VARIABLES
    scripts,      \* main: the scripts handed to produce_scenes (their sizes)
    set_queue,    \* produce_scenes: std::deque<val::Set>
    into,         \* produce_scenes: TPerformanceBuffer& into
    it,           \* std::for_each: index of the script being visited
    pc,           \* position of the program
    set,          \* for_each lambda / act_scene: the Set taken from set_queue.back()
    instruction,  \* act_scene: const val::Instruction instruction
    result,       \* act_scene: const val::preproduction result
    printed,      \* print_buffer: number of render tokens already invoked
    thrown,       \* what ended the program abnormally, "none" otherwise
    call,         \* a single call of a pure function: its name and arguments
    ret           \* [returned, value]: what that call returned, once it has

vars == <<scripts, set_queue, into, it, pc, set, instruction, result, printed, thrown, call, ret>>

run_vars == <<scripts, set_queue, into, it, pc, set, instruction, result, printed, thrown>>

call_vars == <<call, ret>>

----------------------------------------------------------------------------
(* Bounds of the model *)

MaxItems == 3

MaxCoord == 2

(* Program constants *)

border_size == 1

y_needed_by_text == 1

NoValue == [none |-> TRUE]

----------------------------------------------------------------------------
(* typedefs.hpp *)

Min(a, b) ==
    IF b < a THEN b ELSE a

Strict(v) ==
    [kind |-> "def", value |-> v]

Lenient(v) ==
    [kind |-> "lnt", value |-> v]

extract(direction) ==
    direction.value

aspect_tie_horizontal(stage) ==
    IF stage.right - stage.left >= stage.bottom - stage.top THEN "horizontal" ELSE "vertical"

aspect(stage) ==
    IF stage.right - stage.left > stage.bottom - stage.top THEN "horizontal" ELSE "vertical"

resolve_axis_strict_clamps(axis, incoming_value) ==
    IF axis.low.kind = "lnt" /\ axis.high.kind = "def"
    THEN axis.high.value
    ELSE IF incoming_value < axis.low.value
         THEN axis.low.value
         ELSE Min(axis.high.value, incoming_value)

resolve_axis(axis, incoming_value) ==
    CASE axis.low.kind = "def" /\ axis.high.kind = "def" ->
            IF incoming_value < axis.low.value THEN axis.low.value ELSE axis.high.value
      [] axis.low.kind = "def" /\ axis.high.kind = "lnt" ->
            IF incoming_value < axis.low.value THEN axis.low.value
            ELSE Min(axis.high.value, incoming_value)
      [] axis.low.kind = "lnt" /\ axis.high.kind = "lnt" ->
            IF incoming_value < axis.low.value THEN axis.low.value
            ELSE Min(axis.high.value, incoming_value)
      [] axis.low.kind = "lnt" /\ axis.high.kind = "def" ->
            axis.high.value

resolve_direction(dir, incoming_value) ==
    CASE dir.kind = "lnt" -> Min(dir.value, incoming_value)
      [] dir.kind = "def" -> dir.value

make_screen(width, height) ==
    [width |-> width, height |-> height]

----------------------------------------------------------------------------
(* directors.hpp *)

horizontal_next_remaining_space(stage, layout) ==
    [horizontal |-> [low  |-> Strict(layout.x_offset + layout.horizontal_margin),
                     high |-> Lenient(stage.right - layout.x_offset)],
     vertical   |-> [low |-> Strict(stage.top), high |-> Lenient(stage.bottom)]]

horizontal_next_no_margin(stage, layout) ==
    [horizontal |-> [low |-> Strict(layout.x_offset), high |-> Lenient(stage.right)],
     vertical   |-> [low |-> Strict(stage.top), high |-> Lenient(stage.bottom)]]

horizontal_next(stage, layout) ==
    [horizontal |-> [low  |-> Strict(layout.x_offset + layout.horizontal_margin),
                     high |-> Lenient(stage.right)],
     vertical   |-> [low |-> Strict(stage.top), high |-> Lenient(stage.bottom)]]

horizontal_adjust_no_separator(stage, perf, layout) ==
    [layout EXCEPT
        !.x_offset = layout.x_offset + ((perf.right - perf.left) + layout.horizontal_margin),
        !.x_size   = layout.x_size + (perf.left + perf.right)]

horizontal_adjust_both_axes(stage, perf, layout) ==
    [layout EXCEPT
        !.x_offset = layout.x_offset + ((perf.right - perf.left) + 1 + layout.horizontal_margin),
        !.x_size   = layout.x_size + (perf.left + perf.right),
        !.y_size   = layout.y_size + (perf.top + perf.bottom + 1)]

horizontal_adjust(stage, perf, layout) ==
    [layout EXCEPT
        !.x_offset = layout.x_offset + ((perf.right - perf.left) + 1 + layout.horizontal_margin),
        !.x_size   = layout.x_size + (perf.left + perf.right)]

vertical_next(stage, layout) ==
    [horizontal |-> [low |-> Strict(stage.left), high |-> Lenient(stage.right)],
     vertical   |-> [low  |-> Strict(layout.y_offset + layout.vertical_margin),
                     high |-> Lenient(stage.bottom)]]

vertical_adjust(stage, perf, layout) ==
    [layout EXCEPT
        !.y_offset = layout.y_offset + ((perf.bottom - perf.top) + 1 + layout.vertical_margin),
        !.y_size   = layout.y_size + (perf.top + perf.bottom + 1)]

magically_next(stage, layout) ==
    CASE aspect(stage) = "horizontal" -> horizontal_next(stage, layout)
      [] aspect(stage) = "vertical"   -> vertical_next(stage, layout)

magically_adjust(stage, perf, layout) ==
    CASE aspect(stage) = "horizontal" -> horizontal_adjust(stage, perf, layout)
      [] aspect(stage) = "vertical"   -> vertical_adjust(stage, perf, layout)

(* val::Director: the pair of functions a director value holds *)
Directors == {"horizontally", "vertically", "magically"}

instruct(director, stage, layout) ==
    CASE director = "horizontally" -> horizontal_next(stage, layout)
      [] director = "vertically"   -> vertical_next(stage, layout)
      [] director = "magically"    -> magically_next(stage, layout)

adjust(director, stage, perf, layout) ==
    CASE director = "horizontally" -> horizontal_adjust(stage, perf, layout)
      [] director = "vertically"   -> vertical_adjust(stage, perf, layout)
      [] director = "magically"    -> magically_adjust(stage, perf, layout)

----------------------------------------------------------------------------
(* main.cpp: the reference performer *)

(* static_cast<size_t>(f): the value for f >= 0; undefined behaviour for a   *)
(* negative f, where the build may produce any size_t.  The cast is only    *)
(* read through std::min(script.size(), .), so the outcomes 0..limit stand  *)
(* for every size_t: a larger one gives the same minimum as limit.          *)
size_t_cast(f, limit) ==
    IF f >= 0 THEN {f} ELSE 0 .. limit

renderer(instr, script, cast) ==
    LET x_start        == extract(instr.horizontal.low)
        x_absolute_end == extract(instr.horizontal.high)
        y_start        == extract(instr.vertical.low)
        x_end == resolve_direction(instr.horizontal.high,
                                   x_start + Min(script, cast) + border_size * 2)
        y_end == y_start + resolve_direction(instr.vertical.high,
                                             y_needed_by_text + (border_size * 2))
        stage == [left |-> x_start, right |-> x_end, top |-> y_start, bottom |-> y_end - 1]
    IN  [first |-> stage, second |-> [script |-> script, stage |-> stage]]

(* The render token (the lambda returned by renderer) invoked on a screen:  *)
(* what the invocation does to the program.  The characters it writes are   *)
(* not modelled, only whether each write is inside the buffer.              *)
(*   "undefined":     static_cast<size_t> of a negative edge, or a write    *)
(*                    outside screen.buffer (rows top..bottom, columns      *)
(*                    left..right-1)                                        *)
(*   "runtime_error": col_start >= col_end, "These values make no sense."   *)
(*   "length_error":  final_width - border_dim*2 wraps around and           *)
(*                    std::string(filler_col_count, '-') throws             *)
(*   "drawn":         the button is written into the buffer                 *)
render(token, screen) ==
    LET stage       == token.stage
        col_start   == stage.left
        col_end     == stage.right
        final_width == col_end - col_start
        frame_y_start == stage.top
        frame_y_end   == stage.bottom
    IN  IF col_start < 0 \/ col_end < 0 THEN "undefined"
        ELSE IF col_start >= col_end THEN "runtime_error"
        ELSE IF frame_y_start < 0 \/ frame_y_end < 0 THEN "undefined"
        ELSE IF final_width < border_size * 2 THEN "length_error"
        ELSE IF \/ frame_y_start >= screen.height
                \/ frame_y_end >= screen.height
                \/ frame_y_end < frame_y_start
                \/ col_end > screen.width
             THEN "undefined"
        ELSE "drawn"

----------------------------------------------------------------------------
(* The inputs of a run *)

Stages ==
    { [left |-> 0, right |-> 60,  top |-> 0, bottom |-> 20],
      [left |-> 0, right |-> 200, top |-> 0, bottom |-> 40],
      [left |-> 0, right |-> 20,  top |-> 0, bottom |-> 60],
      [left |-> 0, right |-> 10,  top |-> 0, bottom |-> 10],
      [left |-> 0, right |-> 12,  top |-> 0, bottom |-> 1],
      [left |-> 1, right |-> 7,   top |-> 1, bottom |-> 5] }

StageLayouts ==
    { [x_offset |-> c[1], y_offset |-> c[1], horizontal_margin |-> c[2],
       vertical_margin |-> c[2], x_size |-> 0, y_size |-> 0] :
          c \in {<<0, 0>>, <<0, 1>>, <<3, 0>>, <<3, 1>>, <<3, -1>>} }

ScriptSizes == {5, 8, 38}

(* main's own buttons: "First", "Second button", "Third interaction" *)
buttons == <<5, 13, 17>>

RECURSIVE SeqsUpTo(_, _)
SeqsUpTo(S, n) ==
    IF n = 0 THEN {<<>>}
    ELSE LET shorter == SeqsUpTo(S, n - 1)
         IN  shorter \cup {Append(s, x) : s \in {t \in shorter : Len(t) = n - 1}, x \in S}

Back(q) == q[Len(q)]

initial_set == set_queue[1]

RunInit ==
    /\ scripts \in SeqsUpTo(ScriptSizes, MaxItems) \cup {buttons}
    /\ set_queue \in { <<[stage |-> s, stage_layout |-> l, director |-> d]>> :
                          s \in Stages, l \in StageLayouts, d \in Directors }
    /\ into = <<>>
    /\ it = 1
    /\ pc = "for_each"
    /\ set = NoValue
    /\ instruction = NoValue
    /\ result = NoValue
    /\ printed = 0
    /\ thrown = "none"

act_scene_instruct_front ==
    /\ pc = "for_each"
    /\ it <= Len(scripts)
    /\ set' = Head(set_queue)
    /\ instruction' = instruct(set'.director, set'.stage, set'.stage_layout)
    /\ pc' = "perform"
    /\ UNCHANGED <<scripts, set_queue, into, it, result, printed, thrown, call, ret>>

(* for_each lambda: set = set_queue.back(); act_scene: director.instruct *)
act_scene_instruct ==
    /\ pc = "for_each"
    /\ it <= Len(scripts)
    /\ set' = Back(set_queue)
    /\ instruction' = instruct(set'.director, set'.stage, set'.stage_layout)
    /\ pc' = "perform"
    /\ UNCHANGED <<scripts, set_queue, into, it, result, printed, thrown, call, ret>>

(* act_scene: performer.perfom(instruction, script) *)
act_scene_perform ==
    /\ pc = "perform"
    /\ \E cast \in size_t_cast(extract(instruction.horizontal.high)
                                 - extract(instruction.horizontal.low), scripts[it]) :
          result' = renderer(instruction, scripts[it], cast)
    /\ pc' = "adjust"
    /\ UNCHANGED <<scripts, set_queue, into, it, set, instruction, printed, thrown, call, ret>>

(* act_scene: director.adjust and the returned pair; for_each lambda: the   *)
(* two push_backs                                                           *)
act_scene_adjust ==
    /\ pc = "adjust"
    /\ into' = Append(into, result)
    /\ set_queue' = Append(set_queue,
          [stage        |-> set.stage,
           stage_layout |-> adjust(set.director, set.stage, result.first, set.stage_layout),
           director     |-> set.director])
    /\ it' = it + 1
    /\ pc' = "for_each"
    /\ set' = NoValue
    /\ instruction' = NoValue
    /\ result' = NoValue
    /\ UNCHANGED <<scripts, printed, thrown, call, ret>>

(* produce_scenes returns; main makes the screen and calls print_buffer *)
produce_scenes_return ==
    /\ pc = "for_each"
    /\ it > Len(scripts)
    /\ pc' = "print_buffer"
    /\ UNCHANGED <<scripts, set_queue, into, it, set, instruction, result, printed, thrown, call, ret>>

main_screen == make_screen(initial_set.stage.right, initial_set.stage.bottom)

(* print_buffer: for (const auto& perf : buffer) perf.second(screen) *)
print_buffer_perf ==
    /\ pc = "print_buffer"
    /\ printed < Len(into)
    /\ LET outcome == render(into[printed + 1].second, main_screen)
       IN  \/ /\ outcome = "drawn"
              /\ printed' = printed + 1
              /\ UNCHANGED <<pc, thrown>>
           \/ /\ outcome \in {"runtime_error", "length_error"}
              /\ thrown' = outcome
              /\ pc' = "terminated"
              /\ UNCHANGED printed
           \/ /\ outcome = "undefined"
              /\ \/ /\ printed' = printed + 1
                    /\ UNCHANGED <<pc, thrown>>
                 \/ /\ thrown' = "crash"
                    /\ pc' = "terminated"
                    /\ UNCHANGED printed
    /\ UNCHANGED <<scripts, set_queue, into, it, set, instruction, result, call, ret>>

print_buffer_return ==
    /\ pc = "print_buffer"
    /\ printed = Len(into)
    /\ pc' = "done"
    /\ UNCHANGED <<scripts, set_queue, into, it, set, instruction, result, printed, thrown, call, ret>>

Init ==
    /\ RunInit
    /\ call = NoValue
    /\ ret = [returned |-> FALSE]

Next ==
    \/ act_scene_instruct
    \/ act_scene_perform
    \/ act_scene_adjust
    \/ produce_scenes_return
    \/ print_buffer_perf
    \/ print_buffer_return

Spec == Init /\ [][Next]_vars

(* The program is sequential and every step of it terminates: a step that  *)
(* can be taken is taken.                                                   *)
FairSpec == Spec /\ WF_vars(Next)

----------------------------------------------------------------------------
(* Single calls of the pure functions, on arguments drawn from small sets *)

Coords == 0 .. MaxCoord

AxisValues == Coords \cup {10, 50}

IncomingValues == (-1 .. MaxCoord + 1) \cup {5, 30}

Directions == {Strict(v) : v \in AxisValues} \cup {Lenient(v) : v \in AxisValues}

CallStages == [left : Coords, right : Coords, top : Coords, bottom : Coords]

(* one stage of each shape: wider than high, higher than wide, square *)
AspectStages ==
    { [left |-> 0, right |-> 2, top |-> 0, bottom |-> 1],
      [left |-> 0, right |-> 1, top |-> 0, bottom |-> 2],
      [left |-> 1, right |-> 2, top |-> 1, bottom |-> 2] }

CallMargins == -1 .. 1

CallLayouts ==
    [x_offset : 0 .. 1, y_offset : 0 .. 1,
     horizontal_margin : CallMargins, vertical_margin : CallMargins,
     x_size : {0}, y_size : {0}]

NextFunctions == {"horizontal_next", "vertical_next", "magically_next"}

AdjustFunctions == {"horizontal_adjust", "vertical_adjust", "magically_adjust"}

Calls ==
    { [fn |-> "resolve_axis", axis |-> [low |-> l, high |-> h], incoming_value |-> v] :
          l \in Directions, h \in Directions, v \in IncomingValues }
    \cup
    { [fn |-> f, stage |-> s, layout |-> l] :
          f \in NextFunctions, s \in CallStages, l \in CallLayouts }
    \cup
    { [fn |-> f, stage |-> s, perf |-> p, layout |-> l] :
          f \in AdjustFunctions, s \in AspectStages, p \in CallStages, l \in CallLayouts }

CallInit ==
    /\ call \in Calls
    /\ ret = [returned |-> FALSE]
    /\ scripts = <<>>
    /\ set_queue = <<[stage |-> [left |-> 0, right |-> 60, top |-> 0, bottom |-> 20],
                      stage_layout |-> [x_offset |-> 0, y_offset |-> 0,
                                        horizontal_margin |-> 0, vertical_margin |-> 0,
                                        x_size |-> 0, y_size |-> 0],
                      director |-> "magically"]>>
    /\ into = <<>>
    /\ it = 1
    /\ pc = "call"
    /\ set = NoValue
    /\ instruction = NoValue
    /\ result = NoValue
    /\ printed = 0
    /\ thrown = "none"

Returns(value) ==
    /\ pc = "call"
    /\ ~ret.returned
    /\ ret' = [returned |-> TRUE, value |-> value]
    /\ UNCHANGED <<run_vars, call>>

call_resolve_axis ==
    /\ call.fn = "resolve_axis"
    /\ Returns(resolve_axis(call.axis, call.incoming_value))

call_horizontal_next ==
    /\ call.fn = "horizontal_next"
    /\ Returns(horizontal_next(call.stage, call.layout))

call_vertical_next ==
    /\ call.fn = "vertical_next"
    /\ Returns(vertical_next(call.stage, call.layout))

call_magically_next ==
    /\ call.fn = "magically_next"
    /\ Returns(magically_next(call.stage, call.layout))

call_horizontal_adjust ==
    /\ call.fn = "horizontal_adjust"
    /\ Returns(horizontal_adjust(call.stage, call.perf, call.layout))

call_vertical_adjust ==
    /\ call.fn = "vertical_adjust"
    /\ Returns(vertical_adjust(call.stage, call.perf, call.layout))

call_magically_adjust ==
    /\ call.fn = "magically_adjust"
    /\ Returns(magically_adjust(call.stage, call.perf, call.layout))

CallNext ==
    \/ call_resolve_axis
    \/ call_horizontal_next
    \/ call_vertical_next
    \/ call_magically_next
    \/ call_horizontal_adjust
    \/ call_vertical_adjust
    \/ call_magically_adjust

CallSpec == CallInit /\ [][CallNext]_vars

----------------------------------------------------------------------------
(* Names for the parts of a run *)

TheStage == initial_set.stage

TheDirector == initial_set.director

InitialLayout == initial_set.stage_layout

Layout(i) == set_queue[i].stage_layout

Placement(i) == into[i].first

InLoop == pc \in {"for_each", "perform", "adjust"} /\ ~(pc = "for_each" /\ it > Len(scripts))

HorizontalRun ==
    \/ TheDirector = "horizontally"
    \/ TheDirector = "magically" /\ aspect(TheStage) = "horizontal"

VerticalRun ==
    \/ TheDirector = "vertically"
    \/ TheDirector = "magically" /\ aspect(TheStage) = "vertical"

Width(p) == p.right - p.left

Height(p) == p.bottom - p.top

RECURSIVE SumWidths(_)
SumWidths(n) == IF n = 0 THEN 0 ELSE SumWidths(n - 1) + Width(Placement(n))

RECURSIVE SumHeights(_)
SumHeights(n) == IF n = 0 THEN 0 ELSE SumHeights(n - 1) + Height(Placement(n))

ZeroLayout ==
    [x_offset |-> 0, y_offset |-> 0, horizontal_margin |-> 0, vertical_margin |-> 0,
     x_size |-> 0, y_size |-> 0]

WideStage == [left |-> 0, right |-> 200, top |-> 0, bottom |-> 40]

MainStage == [left |-> 0, right |-> 60, top |-> 0, bottom |-> 20]

(* closed intervals [l1, r1] and [l2, r2] share a point *)
Overlap(l1, r1, l2, r2) ==
    l1 <= r1 /\ l2 <= r2 /\ l1 <= r2 /\ l2 <= r1

----------------------------------------------------------------------------
(* The state of the loop: one output and one new cursor per script visited, *)
(* output i the performance of script i under the instruction drawn from    *)
(* cursor i, cursor i+1 the adjustment of cursor i by that performance; the *)
(* loop is left only after the last script and throws nothing.              *)
C1_LoopInv ==
    /\ Len(into) = it - 1
    /\ Len(set_queue) = it
    /\ it <= Len(scripts) + 1
    /\ \A i \in 1 .. Len(into) :
          LET instr == instruct(TheDirector, TheStage, Layout(i))
          IN  /\ \E cast \in size_t_cast(extract(instr.horizontal.high)
                                           - extract(instr.horizontal.low), scripts[i]) :
                    into[i] = renderer(instr, scripts[i], cast)
              /\ set_queue[i + 1] =
                    [stage        |-> TheStage,
                     stage_layout |-> adjust(TheDirector, TheStage, Placement(i), Layout(i)),
                     director     |-> TheDirector]
    /\ ~InLoop => Len(into) = Len(scripts)
    /\ InLoop => thrown = "none"

C1_LoopEnded == ~InLoop /\ Len(into) = Len(scripts)

(* C1: the loop takes one instruct -> perform -> adjust step per script, in  *)
(* list order, never stops early and never fails, and ends with one output   *)
(* per script, output i being the placement and token produced for script i  *)
(* with the cursor produced by the adjust of script i-1 (the initial cursor  *)
(* for the first).                                                           *)
C1_OrderPreservation == [](C1_LoopInv) /\ <>(C1_LoopEnded)

C1_Witness ==
    /\ C1_LoopEnded
    /\ Len(scripts) = MaxItems
    /\ \A i \in 1 .. Len(into) - 1 : Layout(i + 1) # Layout(i)
    /\ scripts[1] # scripts[2]

----------------------------------------------------------------------------
(* C2: resolve_axis returns, for (def a, def b): a if incoming < a, else b;  *)
(* for (def a, lnt b) and for (lnt a, lnt b): a if incoming < a, else        *)
(* min(b, incoming); for (lnt a, def b): b; whatever a, b and incoming are.  *)
C2_ResolutionTable ==
    (call.fn = "resolve_axis" /\ ret.returned) =>
        LET a        == call.axis.low.value
            b        == call.axis.high.value
            incoming == call.incoming_value
            low      == call.axis.low.kind
            high     == call.axis.high.kind
        IN  /\ (low = "def" /\ high = "def") =>
                  ret.value = (IF incoming < a THEN a ELSE b)
            /\ (low = "def" /\ high = "lnt") =>
                  ret.value = (IF incoming < a THEN a ELSE IF b < incoming THEN b ELSE incoming)
            /\ (low = "lnt" /\ high = "lnt") =>
                  ret.value = (IF incoming < a THEN a ELSE IF b < incoming THEN b ELSE incoming)
            /\ (low = "lnt" /\ high = "def") =>
                  ret.value = b

C2_Witness ==
    /\ call.fn = "resolve_axis"
    /\ ret.returned
    /\ call.axis = [low |-> Strict(10), high |-> Strict(50)]
    /\ call.incoming_value = 30
    /\ ret.value = 50

----------------------------------------------------------------------------
(* C3 *)
AdvanceX(perf, layout) == (perf.right - perf.left) + 1 + layout.horizontal_margin

AdvanceY(perf, layout) == (perf.bottom - perf.top) + 1 + layout.vertical_margin

(* horizontal_adjust's x_offset is the same whatever the y-axis fields are *)
XOffsetIgnoresY ==
    \A t \in Coords, b \in Coords, yo \in 0 .. 1, vm \in CallMargins, ys \in 0 .. 1 :
        horizontal_adjust(call.stage,
                          [call.perf EXCEPT !.top = t, !.bottom = b],
                          [call.layout EXCEPT !.y_offset = yo, !.vertical_margin = vm,
                                              !.y_size = ys]).x_offset
            = ret.value.x_offset

(* vertical_adjust's y_offset is the same whatever the x-axis fields are *)
YOffsetIgnoresX ==
    \A l \in Coords, r \in Coords, xo \in 0 .. 1, hm \in CallMargins, xs \in 0 .. 1 :
        vertical_adjust(call.stage,
                        [call.perf EXCEPT !.left = l, !.right = r],
                        [call.layout EXCEPT !.x_offset = xo, !.horizontal_margin = hm,
                                            !.x_size = xs]).y_offset
            = ret.value.y_offset

(* C3, as claimed: for every placement and cursor horizontal_adjust returns  *)
(* an x_offset strictly greater than the old one, by exactly                 *)
(* (right - left) + 1 + horizontal_margin, whatever the y-axis fields; and   *)
(* vertical_adjust does the same for y_offset.                               *)
C3_StrictlyIncreases ==
    /\ (call.fn = "horizontal_adjust" /\ ret.returned) =>
          /\ ret.value.x_offset > call.layout.x_offset
          /\ ret.value.x_offset = call.layout.x_offset + AdvanceX(call.perf, call.layout)
          /\ XOffsetIgnoresY
    /\ (call.fn = "vertical_adjust" /\ ret.returned) =>
          /\ ret.value.y_offset > call.layout.y_offset
          /\ ret.value.y_offset = call.layout.y_offset + AdvanceY(call.perf, call.layout)
          /\ YOffsetIgnoresX

(* C3, amended: horizontal_adjust changes x_offset by exactly                *)
(* (right - left) + 1 + horizontal_margin, whatever the y-axis fields; the   *)
(* new x_offset is strictly greater than the old one exactly when that       *)
(* amount is positive, as it is for right >= left and margin >= 0.  The      *)
(* same holds of vertical_adjust and y_offset.                               *)
C3_AdvancesByExtent ==
    /\ (call.fn = "horizontal_adjust" /\ ret.returned) =>
          /\ ret.value.x_offset = call.layout.x_offset + AdvanceX(call.perf, call.layout)
          /\ XOffsetIgnoresY
          /\ (ret.value.x_offset > call.layout.x_offset)
                <=> (AdvanceX(call.perf, call.layout) > 0)
          /\ (call.perf.right >= call.perf.left /\ call.layout.horizontal_margin >= 0)
                => ret.value.x_offset > call.layout.x_offset
    /\ (call.fn = "vertical_adjust" /\ ret.returned) =>
          /\ ret.value.y_offset = call.layout.y_offset + AdvanceY(call.perf, call.layout)
          /\ YOffsetIgnoresX
          /\ (ret.value.y_offset > call.layout.y_offset)
                <=> (AdvanceY(call.perf, call.layout) > 0)
          /\ (call.perf.bottom >= call.perf.top /\ call.layout.vertical_margin >= 0)
                => ret.value.y_offset > call.layout.y_offset

C3_Witness ==
    /\ call.fn = "horizontal_adjust"
    /\ ret.returned
    /\ call.perf = [left |-> 0, right |-> 2, top |-> 1, bottom |-> 2]
    /\ call.layout.x_offset = 1
    /\ call.layout.horizontal_margin = 1
    /\ call.layout.vertical_margin = -1
    /\ ret.value.x_offset = 5

----------------------------------------------------------------------------
(* C4 *)
Scenario1 ==
    /\ TheStage = WideStage
    /\ TheDirector = "horizontally"
    /\ InitialLayout = ZeroLayout
    /\ pc = "perform"

----------------------------------------------------------------------------
(* C5: in a stack-horizontally run every cursor has x_offset = the initial   *)
(* x_offset plus the sum, over the placements made so far, of                *)
(* (right - left) + 1 + horizontal_margin, while y_offset, y_size and both   *)
(* margins keep their initial values and the stage stays the same; three     *)
(* 10-wide placements on Stage{0,60,0,20} from the zero cursor give          *)
(* x_offset 11, 22 and finally 33.                                           *)
C5_HorizontalRunFrame ==
    HorizontalRun =>
        /\ \A i \in 1 .. Len(set_queue) :
              /\ Layout(i).x_offset = InitialLayout.x_offset + SumWidths(i - 1)
                                        + (i - 1) * (1 + InitialLayout.horizontal_margin)
              /\ Layout(i).y_offset = InitialLayout.y_offset
              /\ Layout(i).y_size = InitialLayout.y_size
              /\ Layout(i).horizontal_margin = InitialLayout.horizontal_margin
              /\ Layout(i).vertical_margin = InitialLayout.vertical_margin
              /\ set_queue[i].stage = TheStage
        /\ (/\ TheStage = MainStage
            /\ InitialLayout = ZeroLayout
            /\ \A i \in 1 .. Len(into) : Width(Placement(i)) = 10)
              => \A i \in 1 .. Len(into) : Layout(i + 1).x_offset = 11 * i

C5_Witness ==
    /\ TheDirector = "horizontally"
    /\ TheStage = MainStage
    /\ InitialLayout = ZeroLayout
    /\ pc = "done"
    /\ Len(into) = 3
    /\ \A i \in 1 .. 3 : Width(Placement(i)) = 10
    /\ Back(set_queue).stage_layout.x_offset = 33
    /\ Layout(2).x_offset = 11
    /\ Layout(3).x_offset = 22

----------------------------------------------------------------------------
(* C6: magically_next and magically_adjust return what horizontal_next and   *)
(* horizontal_adjust return on a stage wider than high, and what             *)
(* vertical_next and vertical_adjust return on a stage higher than wide or   *)
(* square.                                                                   *)
C6_AdaptiveConsistency ==
    LET wide == call.stage.right - call.stage.left > call.stage.bottom - call.stage.top
    IN  /\ (call.fn = "magically_next" /\ ret.returned) =>
              /\ wide  => ret.value = horizontal_next(call.stage, call.layout)
              /\ ~wide => ret.value = vertical_next(call.stage, call.layout)
        /\ (call.fn = "magically_adjust" /\ ret.returned) =>
              /\ wide  => ret.value = horizontal_adjust(call.stage, call.perf, call.layout)
              /\ ~wide => ret.value = vertical_adjust(call.stage, call.perf, call.layout)

C6_Witness ==
    /\ call.fn = "magically_next"
    /\ ret.returned
    /\ call.stage.right - call.stage.left = 1
    /\ call.stage.bottom - call.stage.top = 1
    /\ ret.value = vertical_next(call.stage, call.layout)
    /\ ret.value # horizontal_next(call.stage, call.layout)

----------------------------------------------------------------------------
(* C7: in a run from a cursor with zero sizes, x_size (y_size) of every      *)
(* cursor equals the sum of right - left (bottom - top) of the placements    *)
(* made so far by stack-horizontally (stack-vertically), and never           *)
(* decreases from one cursor to the next.                                    *)
C7_SizeIsConsumedExtent ==
    (InitialLayout.x_size = 0 /\ InitialLayout.y_size = 0) =>
        \A i \in 1 .. Len(into) :
            /\ HorizontalRun =>
                  /\ Layout(i + 1).x_size = SumWidths(i)
                  /\ Layout(i + 1).x_size >= Layout(i).x_size
            /\ VerticalRun =>
                  /\ Layout(i + 1).y_size = SumHeights(i)
                  /\ Layout(i + 1).y_size >= Layout(i).y_size

----------------------------------------------------------------------------
(* C8: every placement of a run ends at or before the Lenient upper bounds   *)
(* of the instruction it was performed under: right <= horizontal high and   *)
(* bottom <= vertical high.                                                  *)
C8_LenientUpperBoundKept ==
    \A i \in 1 .. Len(into) :
        LET instr == instruct(TheDirector, TheStage, Layout(i))
        IN  /\ Placement(i).right <= extract(instr.horizontal.high)
            /\ Placement(i).bottom <= extract(instr.vertical.high)

----------------------------------------------------------------------------
(* C9: a placement with left >= right or with top >= bottom makes its render *)
(* token raise the runtime_error; the loop itself throws nothing and places  *)
(* every script, whatever the placements are.                                *)
C9_DegenerateGeometryRaises ==
    /\ \A i \in 1 .. Len(into) :
          (Placement(i).left >= Placement(i).right \/ Placement(i).top >= Placement(i).bottom)
              => render(into[i].second, main_screen) = "runtime_error"
    /\ InLoop => thrown = "none"
    /\ ~InLoop => Len(into) = Len(scripts)

----------------------------------------------------------------------------
(* C10: in a stack-horizontally run with the reference renderer, after each  *)
(* adjust x_offset = the last placement's right + 1, each placement's left = *)
(* the previous placement's right + 1 + horizontal_margin, and for a margin  *)
(* >= 0 no two placements overlap horizontally; likewise vertically with     *)
(* y_offset, top, bottom and vertical_margin.                                *)
C10_StackedPlacements ==
    /\ HorizontalRun =>
          /\ \A i \in 1 .. Len(into) :
                /\ Layout(i + 1).x_offset = Placement(i).right + 1
                /\ i > 1 => Placement(i).left = Placement(i - 1).right + 1
                                                  + InitialLayout.horizontal_margin
          /\ InitialLayout.horizontal_margin >= 0 =>
                \A i \in 1 .. Len(into), j \in 1 .. Len(into) :
                    i < j => ~Overlap(Placement(i).left, Placement(i).right,
                                      Placement(j).left, Placement(j).right)
    /\ VerticalRun =>
          /\ \A i \in 1 .. Len(into) :
                /\ Layout(i + 1).y_offset = Placement(i).bottom + 1
                /\ i > 1 => Placement(i).top = Placement(i - 1).bottom + 1
                                                 + InitialLayout.vertical_margin
          /\ InitialLayout.vertical_margin >= 0 =>
                \A i \in 1 .. Len(into), j \in 1 .. Len(into) :
                    i < j => ~Overlap(Placement(i).top, Placement(i).bottom,
                                      Placement(j).top, Placement(j).bottom)

C10_Witness ==
    /\ TheDirector = "horizontally"
    /\ InitialLayout.horizontal_margin = 1
    /\ Len(into) = 3
    /\ \A i \in 1 .. 3 : Placement(i).left < Placement(i).right
    /\ Placement(3).left = Placement(2).right + 2
    /\ Back(set_queue).stage_layout.x_offset = Placement(3).right + 1

====
